---- MODULE Spec2Model ----
(***************************************************************************)
(* Model of the risk scoring engine of TechDebtAnalyser                    *)
(* (src/risk_scorer/scorer.py, class RiskScorer).                          *)
(*                                                                         *)
(* A DataFrame is a record [cols, rows]: the set of its column names and   *)
(* the sequence of its rows, each row a function from column name to cell. *)
(* Numeric cells are exact rationals <<n, d>> with d > 0 in lowest terms;  *)
(* the null cell (NaN) is <<0, 0>>.  A file_path cell is a string.         *)
(* Floating point rounding is not modelled: arithmetic is exact.           *)
(*                                                                         *)
(* The collaborators the engine is fed by are modelled beside it: the      *)
(* history miner (src/git_analyzer/analyzer.py, class GitActivityAnalyzer) *)
(* over a repository of commits, and the script of the application         *)
(* (src/application.py, main), which Streamlit runs once per interaction.  *)
(***************************************************************************)
EXTENDS Integers, Sequences, FiniteSets, TLC

VARIABLES git_metrics, static_metrics, scaler, weights, clock, scores, aligned,
          result, repository, analyzer, session_state, temp_dirs, main

\* the RiskScorer and its last call
scorerVars == <<git_metrics, static_metrics, scaler, weights, clock, scores,
                aligned, result>>
\* the repository and the GitActivityAnalyzer over it
gitVars == <<repository, analyzer>>
\* the session state, the temporary directories on disk, the script run
appVars == <<session_state, temp_dirs, main>>

vars == <<git_metrics, static_metrics, scaler, weights, clock, scores, aligned,
          result, repository, analyzer, session_state, temp_dirs, main>>

(***************************************************************************)
(* Bounds of the model.                                                    *)
(***************************************************************************)
\* most rows, over all the tables, of an input with several tables
MaxRows == 2

\* file paths, in lexicographic order
FileSeq == <<"A", "B", "C">>
Files == {FileSeq[i] : i \in 1..Len(FileSeq)}

\* the paths a repository holds beside them, in lexicographic order: a file
\* that is no Python file, and Python files under directories
OtherPaths == <<"README.md", "docs/build.py", "venv/A">>
PathSeq == FileSeq \o OtherPaths

\* raw metric values, and last_modified timestamps in days
RawValues == {10, 20, 30}
\* the values pd.Timestamp.now() returns, in days
NowValues == {20, 30}
\* a weight map gives the kinds integer weights of at most two units in all
WeightLevels == {0, 1, 2}

(***************************************************************************)
(* Exact rational arithmetic.                                              *)
(***************************************************************************)
Abs(n) == IF n < 0 THEN -n ELSE n

RECURSIVE GCD(_, _)
GCD(a, b) == IF b = 0 THEN a ELSE GCD(b, a % b)

\* a fraction in lowest terms; n/0 is an infinity (<<1, 0>> or <<-1, 0>>) and
\* 0/0, which the sum of opposite infinities also gives, is not a number
Norm(n, d) ==
    IF n = 0 /\ d = 0 THEN <<0, 0>>
    ELSE LET s == IF d < 0 THEN -1 ELSE 1
             g == GCD(Abs(n), Abs(d))
         IN <<(s * n) \div g, (s * d) \div g>>

R(n) == <<n, 1>>
NaN == <<0, 0>>
IsNaN(x) == x[2] = 0
Half == <<1, 2>>
Zero == <<0, 1>>
One == <<1, 1>>

RAdd(a, b) == Norm(a[1] * b[2] + b[1] * a[2], a[2] * b[2])
RSub(a, b) == Norm(a[1] * b[2] - b[1] * a[2], a[2] * b[2])
RMul(a, b) == Norm(a[1] * b[1], a[2] * b[2])
RDiv(a, b) == Norm(a[1] * b[2], a[2] * b[1])
RLe(a, b) == a[1] * b[2] <= b[1] * a[2]
RLt(a, b) == a[1] * b[2] < b[1] * a[2]

(***************************************************************************)
(* DataFrames.                                                             *)
(***************************************************************************)
EmptyDF == [cols |-> {}, rows |-> <<>>]

\* DataFrame.empty
IsEmpty(df) == df.cols = {} \/ df.rows = <<>>

Range(s) == {s[i] : i \in 1..Len(s)}

\* df[column].max() and df[column].min() of a non-empty numeric column
ColMax(rows, c) ==
    CHOOSE m \in {rows[i][c] : i \in 1..Len(rows)} :
        \A i \in 1..Len(rows) : RLe(rows[i][c], m)
ColMin(rows, c) ==
    CHOOSE m \in {rows[i][c] : i \in 1..Len(rows)} :
        \A i \in 1..Len(rows) : RLe(m, rows[i][c])

\* df[c] = series: the column c is added to (or replaced in) every row
SetCol(df, c, series) ==
    [cols |-> df.cols \cup {c},
     rows |-> [i \in 1..Len(df.rows) |->
                 [k \in df.cols \cup {c} |->
                     IF k = c THEN series[i] ELSE df.rows[i][k]]]]

\* df[[c1, c2]]
Project(df, cs) ==
    [cols |-> cs,
     rows |-> [i \in 1..Len(df.rows) |-> [k \in cs |-> df.rows[i][k]]]]

\* The Series a column assignment aligns on the index of df: a row the Series
\* has no value for gets NaN (an empty Series makes the whole column NaN)
AlignSeries(df, series) ==
    [i \in 1..Len(df.rows) |-> IF i <= Len(series) THEN series[i] ELSE NaN]

(***************************************************************************)
(* RiskScorer.__init__: the attributes the constructor sets.               *)
(***************************************************************************)
Attributes == {"git_metrics", "static_metrics", "scaler"}

\* MinMaxScaler() before any fit
NewScaler == [fitted |-> FALSE, scale |-> One, min |-> Zero]

(***************************************************************************)
(* MinMaxScaler.fit_transform on one column (feature_range (0, 1)):        *)
(* scale_ = 1 / (max - min), a zero range being replaced by 1;             *)
(* min_ = 0 - data_min * scale_; transform is X * scale_ + min_.           *)
(***************************************************************************)
\* a defect: the minimum is not subtracted (min_ stays 0)
FitUnshifted(rows, column) ==
    LET lo == ColMin(rows, column)
        hi == ColMax(rows, column)
        range == RSub(hi, lo)
        scale == RDiv(One, IF range = Zero THEN One ELSE range)
    IN [fitted |-> TRUE, scale |-> scale, min |-> Zero]

\* a defect: a zero range is not replaced by 1
FitUnguarded(rows, column) ==
    LET lo == ColMin(rows, column)
        hi == ColMax(rows, column)
        scale == RDiv(One, RSub(hi, lo))
    IN [fitted |-> TRUE, scale |-> scale, min |-> RSub(Zero, RMul(lo, scale))]

Fit(rows, column) ==
    LET lo == ColMin(rows, column)
        hi == ColMax(rows, column)
        range == RSub(hi, lo)
        scale == RDiv(One, IF range = Zero THEN One ELSE range)
    IN [fitted |-> TRUE, scale |-> scale, min |-> RSub(Zero, RMul(lo, scale))]

Transform(sc, x) == RAdd(RMul(x, sc.scale), sc.min)

\* a defect: a scaler that has been fitted transforms the column before it
\* is fitted to it (transform, then fit)
NormalizeMetricStale(df, column, sc) ==
    IF IsEmpty(df) \/ column \notin df.cols
    THEN [series |-> <<>>, scaler |-> sc]
    ELSE [series |-> [i \in 1..Len(df.rows) |->
                         Transform(IF sc.fitted THEN sc ELSE Fit(df.rows, column),
                                   df.rows[i][column])],
          scaler |-> Fit(df.rows, column)]

\* RiskScorer._normalize_metric: [series, scaler]
NormalizeMetric(df, column, sc) ==
    IF IsEmpty(df) \/ column \notin df.cols
    THEN [series |-> <<>>, scaler |-> sc]
    ELSE LET fit == Fit(df.rows, column)
         IN [series |-> [i \in 1..Len(df.rows) |-> Transform(fit, df.rows[i][column])],
             scaler |-> fit]

(***************************************************************************)
(* The outcome of one calculate_*_score call: the exception it raises      *)
(* ("none" when it returns), the DataFrame it returns, the metrics mapping *)
(* after the call (the input tables are modified in place) and the scaler. *)
(***************************************************************************)
Outcome(exc, df, metrics, sc) ==
    [exc |-> exc, df |-> df, metrics |-> metrics, scaler |-> sc]

\* the except clause of calculate_aging_score: self.logger.error(...) and
\* return pd.DataFrame(); reading an attribute __init__ never set raises
AgingHandler(metrics, sc) ==
    IF "logger" \in Attributes
    THEN Outcome("none", EmptyDF, metrics, sc)
    ELSE Outcome("AttributeError", EmptyDF, metrics, sc)

\* pd.to_datetime(cell, utc=True): a date string is parsed into a timestamp,
\* a timestamp stays what it is.  A last_modified cell is [repr, t], t in days
ToDatetime(cell) == [repr |-> "datetime", t |-> cell.t]

\* age_days / max_age if max_age > 0 else 0
AgingFormula(age, max_age) ==
    IF RLt(Zero, max_age) THEN RDiv(age, max_age) ELSE Zero

\* RiskScorer.calculate_aging_score
CalculateAgingScore(gm, sc, now) ==
    IF "last_modified" \notin DOMAIN gm THEN AgingHandler(gm, sc)
    ELSE
    LET last_modified == gm["last_modified"] IN
    IF IsEmpty(last_modified) THEN Outcome("none", EmptyDF, gm, sc)
    ELSE IF "last_modified" \notin last_modified.cols THEN AgingHandler(gm, sc)
    ELSE
    LET n == Len(last_modified.rows)
        t0 == SetCol(last_modified, "last_modified",
                  [i \in 1..n |-> ToDatetime(last_modified.rows[i]["last_modified"])])
        t1 == SetCol(t0, "age_days",
                  [i \in 1..n |-> R(now - t0.rows[i]["last_modified"].t)])
        max_age == ColMax(t1.rows, "age_days")
        t2 == SetCol(t1, "aging_score",
                  [i \in 1..n |-> AgingFormula(t1.rows[i]["age_days"], max_age)])
        gm2 == [gm EXCEPT !["last_modified"] = t2]
    IN IF "file_path" \notin t2.cols THEN AgingHandler(gm2, sc)
       ELSE Outcome("none", Project(t2, {"file_path", "aging_score"}), gm2, sc)

\* df.groupby('file_path')[column].mean().reset_index(): one row per file,
\* in the sorted order of the keys, holding the mean of the rows of the file
SumCol(rows, c, f) ==
    LET RECURSIVE S(_)
        S(i) == IF i = 0 THEN Zero
                ELSE IF rows[i]["file_path"] = f THEN RAdd(S(i - 1), rows[i][c])
                ELSE S(i - 1)
    IN S(Len(rows))

CountRows(rows, f) == Cardinality({i \in 1..Len(rows) : rows[i]["file_path"] = f})

\* a defect: the rows of a file are summed and not averaged
MeanUndivided(rows, c, f) == SumCol(rows, c, f)

Mean(rows, c, f) == RDiv(SumCol(rows, c, f), R(CountRows(rows, f)))

\* the distinct keys of the rows, sorted
SortedKeys(rows) ==
    LET ks == {rows[i]["file_path"] : i \in 1..Len(rows)}
        RECURSIVE Build(_, _)
        Build(i, acc) ==
            IF i > Len(PathSeq) THEN acc
            ELSE Build(i + 1, IF PathSeq[i] \in ks THEN Append(acc, PathSeq[i]) ELSE acc)
    IN Build(1, <<>>)

\* a defect: the rows are not aggregated, each keeps its own value
GroupByMeanSkipped(df, column) == Project(df, {"file_path", column})

GroupByMean(df, column) ==
    LET ks == SortedKeys(df.rows)
    IN [cols |-> {"file_path", column},
        rows |-> [i \in 1..Len(ks) |->
                    [k \in {"file_path", column} |->
                        IF k = "file_path" THEN ks[i] ELSE Mean(df.rows, column, ks[i])]]]

\* df[scoreCol] = self._normalize_metric(df, column): the table with its score
\* column, and the scaler after the fit
Assigned(df, scoreCol, nm) ==
    [df |-> SetCol(df, scoreCol, AlignSeries(df, nm.series)), scaler |-> nm.scaler]

AssignScore(df, column, scoreCol, sc) ==
    Assigned(df, scoreCol, NormalizeMetric(df, column, sc))

\* return df[['file_path', scoreCol]]
AggregatedReturn(scored, metrics, scoreCol) ==
    Outcome("none", Project(scored.df, {"file_path", scoreCol}), metrics, scored.scaler)

\* calculate_change_frequency_score and calculate_complexity_score: the table
\* is aggregated per file, normalized, and the input is left alone
AggregatedScore(metrics, key, column, scoreCol, sc) ==
    IF key \notin DOMAIN metrics THEN Outcome("KeyError", EmptyDF, metrics, sc)
    ELSE IF IsEmpty(metrics[key]) THEN Outcome("none", EmptyDF, metrics, sc)
    ELSE IF ~({"file_path", column} \subseteq metrics[key].cols)
    THEN Outcome("KeyError", EmptyDF, metrics, sc)
    ELSE AggregatedReturn(AssignScore(GroupByMean(metrics[key], column),
                                      column, scoreCol, sc),
                          metrics, scoreCol)

\* RiskScorer.calculate_change_frequency_score
CalculateChangeFrequencyScore(gm, sc) ==
    AggregatedScore(gm, "change_frequency", "change_count", "frequency_score", sc)

\* RiskScorer.calculate_complexity_score
CalculateComplexityScore(sm, sc) ==
    AggregatedScore(sm, "complexity", "complexity", "complexity_score", sc)

\* calculate_maintainability_score and calculate_coverage_score: the score
\* column is written into the input table itself
InPlaceReturn(scored, metrics, key, scoreCol) ==
    IF "file_path" \notin scored.df.cols
    THEN Outcome("KeyError", EmptyDF, [metrics EXCEPT ![key] = scored.df],
                 scored.scaler)
    ELSE Outcome("none", Project(scored.df, {"file_path", scoreCol}),
                 [metrics EXCEPT ![key] = scored.df], scored.scaler)

InPlaceScore(metrics, key, column, scoreCol, sc) ==
    IF key \notin DOMAIN metrics THEN Outcome("KeyError", EmptyDF, metrics, sc)
    ELSE IF IsEmpty(metrics[key]) THEN Outcome("none", EmptyDF, metrics, sc)
    ELSE InPlaceReturn(AssignScore(metrics[key], column, scoreCol, sc),
                       metrics, key, scoreCol)

\* RiskScorer.calculate_maintainability_score
CalculateMaintainabilityScore(sm, sc) ==
    InPlaceScore(sm, "maintainability", "maintainability_index",
                 "maintainability_score", sc)

\* RiskScorer.calculate_coverage_score
CalculateCoverageScore(sm, sc) ==
    InPlaceScore(sm, "test_coverage", "line_coverage", "coverage_score", sc)

(***************************************************************************)
(* pd.merge(left, right, on='file_path', how='outer'): the union of the    *)
(* keys in sorted order; for one key every left row of the key is paired   *)
(* with every right row of the key, and a side that has no row of the key  *)
(* contributes NaN cells.                                                  *)
(***************************************************************************)
RowsOf(df, f) == SelectSeq(df.rows, LAMBDA r : r["file_path"] = f)

NullRow(cs) == [k \in cs |-> NaN]

JoinRow(l, r, cs, lcols) ==
    [k \in cs |-> IF k \in lcols THEN l[k] ELSE r[k]]

\* the rows of one key: left-major pairs
KeyRows(left, right, f) ==
    LET cs == left.cols \cup right.cols
        ls == RowsOf(left, f)
        rs == RowsOf(right, f)
        lsx == IF ls = <<>>
               THEN <<[k \in left.cols |-> IF k = "file_path" THEN f ELSE NaN]>>
               ELSE ls
        rsx == IF rs = <<>> THEN <<NullRow(right.cols \ {"file_path"})>> ELSE rs
        nl == Len(lsx)
        nr == Len(rsx)
    IN [i \in 1..(nl * nr) |->
           JoinRow(lsx[((i - 1) \div nr) + 1], rsx[((i - 1) % nr) + 1], cs, left.cols)]

\* a defect: how='left', the keys of the right table alone are dropped
MergeLeft(left, right) ==
    LET ks == SortedKeys(left.rows)
        RECURSIVE Cat(_)
        Cat(i) == IF i = 0 THEN <<>> ELSE Cat(i - 1) \o KeyRows(left, right, ks[i])
    IN [cols |-> left.cols \cup right.cols, rows |-> Cat(Len(ks))]

Merge(left, right) ==
    LET ks == SortedKeys(left.rows \o right.rows)
        RECURSIVE Cat(_)
        Cat(i) == IF i = 0 THEN <<>> ELSE Cat(i - 1) \o KeyRows(left, right, ks[i])
    IN [cols |-> left.cols \cup right.cols, rows |-> Cat(Len(ks))]

\* the loop over scores: empty score tables are skipped, the first non-empty
\* one starts risk_df and each later one is merged into it
RECURSIVE MergeAll(_, _)
MergeAll(dfs, acc) ==
    IF dfs = <<>> THEN acc
    ELSE LET score_df == Head(dfs)
         IN MergeAll(Tail(dfs),
                IF IsEmpty(score_df) THEN acc
                ELSE IF IsEmpty(acc) THEN score_df
                ELSE Merge(acc, score_df))

\* the value fillna puts into a null cell
Neutral == Half

\* a null file_path cell (the tables of the model hold none)
NullPath == "NaN"

\* cell.isna(), for the cell of column k
IsNull(k, cell) == IF k = "file_path" THEN cell = NullPath ELSE IsNaN(cell)

\* a defect: null cells are filled with 0
FillNaZero(df) ==
    [cols |-> df.cols,
     rows |-> [i \in 1..Len(df.rows) |->
                 [k \in df.cols |->
                     IF IsNull(k, df.rows[i][k]) THEN Zero ELSE df.rows[i][k]]]]

\* a defect: a cell that is null or 0 is filled (x or 0.5)
FillNaFalsy(df) ==
    [cols |-> df.cols,
     rows |-> [i \in 1..Len(df.rows) |->
                 [k \in df.cols |->
                     IF IsNull(k, df.rows[i][k]) \/ (k # "file_path" /\ df.rows[i][k] = Zero)
                     THEN Neutral ELSE df.rows[i][k]]]]

\* DataFrame.fillna(0.5): every null cell, of whatever column, becomes 0.5
FillNa(df) ==
    [cols |-> df.cols,
     rows |-> [i \in 1..Len(df.rows) |->
                 [k \in df.cols |->
                     IF IsNull(k, df.rows[i][k]) THEN Neutral ELSE df.rows[i][k]]]]

(***************************************************************************)
(* The weighted sum of calculate_risk_score.                               *)
(***************************************************************************)
Kinds == <<"aging", "frequency", "complexity", "maintainability", "coverage">>
KindSet == Range(Kinds)

ScoreCol(k) ==
    CASE k = "aging" -> "aging_score"
      [] k = "frequency" -> "frequency_score"
      [] k = "complexity" -> "complexity_score"
      [] k = "maintainability" -> "maintainability_score"
      [] k = "coverage" -> "coverage_score"

\* a defect: no kind is inverted
ContributionDirect(k, score) == score

\* what a metric adds to the sum: the score, or 1 - score
Contribution(k, score) ==
    IF k \in {"maintainability", "coverage"} THEN RSub(One, score) ELSE score

\* the kinds whose score column is in risk_df
PresentKinds(df) == {k \in KindSet : ScoreCol(k) \in df.cols}

\* sum over the present kinds, in the order of the if statements
RECURSIVE WeightedSum(_, _, _, _)
WeightedSum(i, w, row, present) ==
    IF i = 0 THEN Zero
    ELSE IF Kinds[i] \in present
         THEN RAdd(WeightedSum(i - 1, w, row, present),
                   RMul(w[Kinds[i]], Contribution(Kinds[i], row[ScoreCol(Kinds[i])])))
         ELSE WeightedSum(i - 1, w, row, present)

\* a defect: the denominator sums the configured weight of every kind
RECURSIVE TotalWeightConfigured(_, _, _)
TotalWeightConfigured(i, w, present) ==
    IF i = 0 THEN Zero
    ELSE RAdd(TotalWeightConfigured(i - 1, w, present), w[Kinds[i]])

\* a defect: the denominator counts the present kinds (a plain average)
RECURSIVE TotalWeightCounted(_, _, _)
TotalWeightCounted(i, w, present) ==
    IF i = 0 THEN Zero
    ELSE IF Kinds[i] \in present
         THEN RAdd(TotalWeightCounted(i - 1, w, present), One)
         ELSE TotalWeightCounted(i - 1, w, present)

RECURSIVE TotalWeight(_, _, _)
TotalWeight(i, w, present) ==
    IF i = 0 THEN Zero
    ELSE IF Kinds[i] \in present
         THEN RAdd(TotalWeight(i - 1, w, present), w[Kinds[i]])
         ELSE TotalWeight(i - 1, w, present)

\* a defect: the weighted sum is not divided by the weight applied
RiskOfRowUnscaled(w, row, present) ==
    IF RLt(Zero, TotalWeight(Len(Kinds), w, present))
    THEN WeightedSum(Len(Kinds), w, row, present)
    ELSE Neutral

\* a defect: the division is not guarded by total_weight > 0
RiskOfRowUnguarded(w, row, present) ==
    RDiv(WeightedSum(Len(Kinds), w, row, present), TotalWeight(Len(Kinds), w, present))

\* risk_score / total_weight if total_weight > 0, else 0.5
RiskOfRow(w, row, present) ==
    LET total_weight == TotalWeight(Len(Kinds), w, present)
    IN IF RLt(Zero, total_weight)
       THEN RDiv(WeightedSum(Len(Kinds), w, row, present), total_weight)
       ELSE Neutral

\* risk_df['risk_score'] = ...
WithRisk(df, w) ==
    SetCol(df, "risk_score",
           [i \in 1..Len(df.rows) |-> RiskOfRow(w, df.rows[i], PresentKinds(df))])

(***************************************************************************)
(* risk_df.sort_values('risk_score', ascending=False): the default sort    *)
(* kind is quicksort, which is not stable, so the order of rows of equal   *)
(* risk_score is not fixed: every descending arrangement is an outcome.    *)
(***************************************************************************)
Descending(rows) ==
    \A i \in 1..(Len(rows) - 1) : RLe(rows[i + 1]["risk_score"], rows[i]["risk_score"])

\* a defect: the sort is left out and the rows stay in the order of the merge
SortSkipped(df) == {df}

SortOutcomes(df) ==
    LET n == Len(df.rows)
        perms == {p \in [1..n -> 1..n] : \A i, j \in 1..n : i # j => p[i] # p[j]}
    IN {[cols |-> df.cols, rows |-> [i \in 1..n |-> df.rows[p[i]]]] : p \in
           {q \in perms : Descending([i \in 1..n |-> df.rows[q[i]]])}}

(***************************************************************************)
(* RiskScorer.calculate_risk_score(weights), as one step.  run is the      *)
(* record of everything the call leaves behind: the metric tables and the  *)
(* scaler after the call, the component scores it computed, the merged     *)
(* table before fillna, and what the call returned or raised.              *)
(***************************************************************************)
Returned(df) == [status |-> "returned", exc |-> "none", df |-> df]
Raised(exc) == [status |-> "raised", exc |-> exc, df |-> EmptyDF]
NotCalled == [status |-> "none", exc |-> "none", df |-> EmptyDF]

RunRecord(gm, sm, sc, ss, al, res) ==
    [gm |-> gm, sm |-> sm, scaler |-> sc, scores |-> ss, aligned |-> al, results |-> res]

\* the weighted sum and the sort, on the table fillna returned
Ranked(w, risk_df, filled) ==
    IF \E k \in PresentKinds(filled) : k \notin DOMAIN w
    THEN [aligned |-> risk_df, results |-> {Raised("KeyError")}]
    ELSE [aligned |-> risk_df,
          results |-> {Returned(df) : df \in SortOutcomes(WithRisk(filled, w))}]

\* a defect: no early return for an empty merge
FilledAlways(w, risk_df) == Ranked(w, risk_df, FillNa(risk_df))

\* the part after the merge: the empty return, or fillna and the ranking
Filled(w, risk_df) ==
    IF IsEmpty(risk_df) THEN [aligned |-> risk_df, results |-> {Returned(EmptyDF)}]
    ELSE Ranked(w, risk_df, FillNa(risk_df))

\* the part after the component scores: merge, fillna, weighted sum, sort
Combine(w, ss) == Filled(w, MergeAll(ss, EmptyDF))

\* element k of the scores list
CalculateScore(k, gm, sm, sc, now) ==
    CASE k = "aging" -> CalculateAgingScore(gm, sc, now)
      [] k = "frequency" -> CalculateChangeFrequencyScore(gm, sc)
      [] k = "complexity" -> CalculateComplexityScore(sm, sc)
      [] k = "maintainability" -> CalculateMaintainabilityScore(sm, sc)
      [] k = "coverage" -> CalculateCoverageScore(sm, sc)

\* the mapping a calculate_<kind>_score call reads, and may write
ReadsGit(k) == k \in {"aging", "frequency"}

\* the scores list, built element by element: each call sees the tables and
\* the scaler as the calls before it left them, and an exception ends the list
RECURSIVE ScoresFrom(_, _, _, _, _, _)
ScoreTaken(o, i, gm, sm, ss, now) ==
    IF o.exc # "none"
    THEN [exc |-> o.exc, scores |-> ss, scaler |-> o.scaler,
          gm |-> IF ReadsGit(Kinds[i]) THEN o.metrics ELSE gm,
          sm |-> IF ReadsGit(Kinds[i]) THEN sm ELSE o.metrics]
    ELSE ScoresFrom(i + 1,
                    IF ReadsGit(Kinds[i]) THEN o.metrics ELSE gm,
                    IF ReadsGit(Kinds[i]) THEN sm ELSE o.metrics,
                    o.scaler, Append(ss, o.df), now)

ScoresFrom(i, gm, sm, sc, ss, now) ==
    IF i > Len(Kinds)
    THEN [exc |-> "none", scores |-> ss, scaler |-> sc, gm |-> gm, sm |-> sm]
    ELSE ScoreTaken(CalculateScore(Kinds[i], gm, sm, sc, now), i, gm, sm, ss, now)

Combined(s, cb) == RunRecord(s.gm, s.sm, s.scaler, s.scores, cb.aligned, cb.results)

Scored(s, w) ==
    IF s.exc # "none"
    THEN RunRecord(s.gm, s.sm, s.scaler, s.scores, EmptyDF, {Raised(s.exc)})
    ELSE Combined(s, Combine(w, s.scores))

\* the weights argument when the caller passes none
None == [None |-> TRUE]

\* if weights is None: weights = {...}
DefaultWeights ==
    [k \in KindSet |->
        CASE k = "aging" -> <<1, 5>>
          [] k = "frequency" -> <<1, 5>>
          [] k = "complexity" -> <<3, 10>>
          [] k = "maintainability" -> <<1, 5>>
          [] k = "coverage" -> <<1, 10>>]

WeightsOrDefault(w) == IF w = None THEN DefaultWeights ELSE w

RiskRun(gm, sm, sc, w, now) ==
    Scored(ScoresFrom(1, gm, sm, sc, <<>>, now), WeightsOrDefault(w))

(***************************************************************************)
(* The inputs of the model.                                                *)
(***************************************************************************)
GitKeys == {"last_modified", "change_frequency"}
StaticKeys == {"complexity", "maintainability", "test_coverage"}
Keys == <<"last_modified", "change_frequency", "complexity", "maintainability",
          "test_coverage">>

RawCol(key) ==
    CASE key = "last_modified" -> "last_modified"
      [] key = "change_frequency" -> "change_count"
      [] key = "complexity" -> "complexity"
      [] key = "maintainability" -> "maintainability_index"
      [] key = "test_coverage" -> "line_coverage"

\* a last_modified column holds date strings or timestamps
DateReprs == {"str", "datetime"}

RawCell(key, v, repr) ==
    IF key = "last_modified" THEN [repr |-> repr, t |-> v] ELSE R(v)

\* the table of a key whose rows are the <<file, value>> pairs of cells
Table(key, cells, repr) ==
    IF cells = <<>> THEN EmptyDF
    ELSE [cols |-> {"file_path", RawCol(key)},
          rows |-> [i \in 1..Len(cells) |->
                      [k \in {"file_path", RawCol(key)} |->
                          IF k = "file_path" THEN cells[i][1]
                          ELSE RawCell(key, cells[i][2], repr)]]]

\* Inputs with several tables: any rows (a path may repeat) over two files
\* and two raw values, MaxRows rows in all.  Every key is in its mapping.
SharedFiles == {"A", "B"}
SharedValues == {10, 20}
SharedCells(n) == [1..n -> SharedFiles \X SharedValues]

\* Inputs with a lone table: one row per file, over all files and raw values.
LoneCells ==
    {c \in UNION {[1..n -> Files \X RawValues] : n \in 1..Len(FileSeq)} :
        \A i, j \in 1..Len(c) : i # j => c[i][1] # c[j][1]}

\* weight maps: a non-negative integer weight for every kind
WeightUnits ==
    {x \in [KindSet -> WeightLevels] :
        x["aging"] + x["frequency"] + x["complexity"]
          + x["maintainability"] + x["coverage"] \in WeightLevels}
WeightMaps == {[k \in KindSet |-> R(u[k])] : u \in WeightUnits}

\* the metric tables of an input
Metrics(keys, cs, repr) ==
    [k \in keys |-> Table(k, cs[CHOOSE i \in 1..5 : Keys[i] = k], repr)]

\* the collaborators of the scorer, before they have done anything: no
\* repository and no analyzer over it; an empty session state, no temporary
\* directory and a script that has not run
NoAnalyzer ==
    [pc |-> "none", valid_commits |-> {}, results |-> [k \in {} |-> EmptyDF],
     exc |-> "none"]

NoSession == [k \in {} |-> None]

NotRunning ==
    [pc |-> "idle", analysis_mode |-> "none", temp_dir |-> "none",
     failed |-> "none", message |-> "none", error |-> "none", dashboard |-> FALSE]

AppAtRest == session_state = NoSession /\ temp_dirs = {} /\ main = NotRunning

AtRest == repository = <<>> /\ analyzer = NoAnalyzer /\ AppAtRest

InitCall ==
    /\ scaler = NewScaler
    /\ weights \in WeightMaps
    /\ clock = CHOOSE t \in NowValues : TRUE
    /\ scores = <<>>
    /\ aligned = EmptyDF
    /\ result = NotCalled
    /\ AtRest

\* several tables
InitShared ==
    \E n1 \in 0..MaxRows : \E n2 \in 0..(MaxRows - n1) :
    \E n3 \in 0..(MaxRows - n1 - n2) : \E n4 \in 0..(MaxRows - n1 - n2 - n3) :
    \E n5 \in 0..(MaxRows - n1 - n2 - n3 - n4) :
    \E c1 \in SharedCells(n1), c2 \in SharedCells(n2), c3 \in SharedCells(n3),
       c4 \in SharedCells(n4), c5 \in SharedCells(n5) :
    \E repr \in (IF n1 = 0 THEN {"str"} ELSE DateReprs) :
       /\ git_metrics = Metrics(GitKeys, <<c1, c2, c3, c4, c5>>, repr)
       /\ static_metrics = Metrics(StaticKeys, <<c1, c2, c3, c4, c5>>, repr)

\* a lone table
InitLone ==
    \E i \in 1..5 : \E c \in LoneCells :
    \E repr \in (IF i = 1 THEN DateReprs ELSE {"str"}) :
       LET cs == [j \in 1..5 |-> IF j = i THEN c ELSE <<>>] IN
       /\ git_metrics = Metrics(GitKeys, cs, repr)
       /\ static_metrics = Metrics(StaticKeys, cs, repr)

\* a mapping that lacks one key (the table of the key was never produced),
\* beside at most one table, of one row
Without(metrics, key) == [k \in DOMAIN metrics \ {key} |-> metrics[k]]

InitMissing ==
    \E missing \in 1..5 : \E i \in 1..5 \ {missing} :
    \E n \in {0, 1} : \E c \in SharedCells(n) :
    \E repr \in (IF i = 1 /\ n > 0 THEN DateReprs ELSE {"str"}) :
       LET cs == [j \in 1..5 |-> IF j = i THEN c ELSE <<>>] IN
       /\ git_metrics = Without(Metrics(GitKeys, cs, repr), Keys[missing])
       /\ static_metrics = Without(Metrics(StaticKeys, cs, repr), Keys[missing])

Init == (InitShared \/ InitLone \/ InitMissing) /\ InitCall

\* pd.Timestamp.now() is read by calculate_aging_score alone, once it has found
\* a last_modified table with rows; a call that does not read it has one outcome
ClockReads(gm) ==
    IF /\ "last_modified" \in DOMAIN gm
       /\ ~IsEmpty(gm["last_modified"])
       /\ "last_modified" \in gm["last_modified"].cols
    THEN NowValues
    ELSE {CHOOSE t \in NowValues : TRUE}

\* calculate_risk_score(w), at the time now
Call(w, now) ==
    \E run \in {RiskRun(git_metrics, static_metrics, scaler, w, now)} :
        /\ git_metrics' = run.gm
        /\ static_metrics' = run.sm
        /\ scaler' = run.scaler
        /\ scores' = run.scores
        /\ aligned' = run.aligned
        /\ result' \in run.results
        /\ weights' = w
        /\ clock' = now
        /\ UNCHANGED <<gitVars, appVars>>

\* the scorer is called with the weights it was first called with
CalculateRiskScore == \E now \in ClockReads(git_metrics) : Call(weights, now)

Next == CalculateRiskScore

Spec == Init /\ [][Next]_vars

(***************************************************************************)
(* A scorer that is called again and again, each time with whatever        *)
(* weights argument the caller passes.                                     *)
(***************************************************************************)
\* the rows its tables are cut from: B has two rows
SampleCells == <<<<"A", 10>>, <<"B", 30>>, <<"B", 10>>, <<"C", 20>>>>

\* no rows, or up to MaxRows consecutive rows of the sample
Slices ==
    {<<>>} \cup {SubSeq(SampleCells, o + 1, o + n) :
                    o \in {0, 1}, n \in 1..MaxRows}

\* a table with rows that lacks the file_path column
Headless(key, cells, repr) ==
    Project(Table(key, cells, repr), {RawCol(key)})

\* weights arguments: none, a value for every key, some keys omitted
Ones == [k \in KindSet |-> One]
Zeros == [k \in KindSet |-> Zero]
Uneven ==
    [k \in KindSet |->
        CASE k = "aging" -> One
          [] k = "frequency" -> Zero
          [] k = "complexity" -> R(2)
          [] k = "maintainability" -> One
          [] k = "coverage" -> Zero]
Omitting(w, ks) == [k \in DOMAIN w \ ks |-> w[k]]

\* application.main: the six slider values, divided by their total when
\* that is positive
SliderKeys == KindSet \cup {"authorship"}
SliderDefaults ==
    [k \in SliderKeys |-> IF k = "authorship" THEN <<1, 10>> ELSE DefaultWeights[k]]
RECURSIVE SliderTotal(_, _)
SliderTotal(v, ks) ==
    IF ks = {} THEN Zero
    ELSE LET k == CHOOSE x \in ks : TRUE IN RAdd(v[k], SliderTotal(v, ks \ {k}))
Normalized(v, total_weight) ==
    IF RLt(Zero, total_weight) THEN [k \in DOMAIN v |-> RDiv(v[k], total_weight)]
    ELSE v
AppWeights(v) == Normalized(v, SliderTotal(v, DOMAIN v))

WeightArgs ==
    {None, Ones, Zeros, Uneven, AppWeights(SliderDefaults), Omitting(Ones, KindSet)}
      \cup {Omitting(Ones, {k}) : k \in KindSet}

NotYetCalled ==
    /\ scaler = NewScaler
    /\ weights = None
    /\ clock = CHOOSE t \in NowValues : TRUE
    /\ scores = <<>>
    /\ aligned = EmptyDF
    /\ result = NotCalled

\* at most two tables with rows, the second of one row
InitSampled ==
    \E i, j \in 1..5 : \E ci \in Slices : \E cj \in {c \in Slices : Len(c) <= 1} :
    \E repr \in {"str"} :
       LET cs == [x \in 1..5 |-> IF x = i THEN ci ELSE IF x = j THEN cj ELSE <<>>] IN
       /\ git_metrics = Metrics(GitKeys, cs, repr)
       /\ static_metrics = Metrics(StaticKeys, cs, repr)

\* one table with rows and no file_path column, beside empty tables
InitHeadless ==
    \E i \in 1..5 : \E c \in Slices \ {<<>>} :
       LET cs == [x \in 1..5 |-> <<>>]
           gm == Metrics(GitKeys, cs, "str")
           sm == Metrics(StaticKeys, cs, "str")
           t == Headless(Keys[i], c, "str")
       IN /\ git_metrics = IF Keys[i] \in GitKeys THEN [gm EXCEPT ![Keys[i]] = t] ELSE gm
          /\ static_metrics =
                IF Keys[i] \in StaticKeys THEN [sm EXCEPT ![Keys[i]] = t] ELSE sm

\* a table with rows that lacks its raw column
Rawless(key, cells, repr) ==
    Project(Table(key, cells, repr), {"file_path"})

\* one table with rows and no raw column, beside at most one table of one row
InitRawless ==
    \E i \in 1..5 : \E j \in 1..5 \ {i} : \E ci \in Slices \ {<<>>} :
    \E cj \in {c \in Slices : Len(c) <= 1} :
       LET cs == [x \in 1..5 |-> IF x = j THEN cj ELSE <<>>]
           gm == Metrics(GitKeys, cs, "str")
           sm == Metrics(StaticKeys, cs, "str")
           t == Rawless(Keys[i], ci, "str")
       IN /\ git_metrics = IF Keys[i] \in GitKeys THEN [gm EXCEPT ![Keys[i]] = t] ELSE gm
          /\ static_metrics =
                IF Keys[i] \in StaticKeys THEN [sm EXCEPT ![Keys[i]] = t] ELSE sm

\* a change_frequency or complexity table of all the sample rows (several
\* windows, or functions, of one file), beside at most one table of one row
InitWindowed ==
    \E i \in {2, 3} : \E j \in 1..5 \ {i} : \E cj \in {c \in Slices : Len(c) <= 1} :
       LET cs == [x \in 1..5 |-> IF x = i THEN SampleCells ELSE IF x = j THEN cj ELSE <<>>] IN
       /\ git_metrics = Metrics(GitKeys, cs, "str")
       /\ static_metrics = Metrics(StaticKeys, cs, "str")

InitCalls ==
    (InitSampled \/ InitHeadless \/ InitRawless \/ InitWindowed)
        /\ NotYetCalled /\ AtRest

CalculateRiskScoreWeighted ==
    \E w \in WeightArgs : \E now \in ClockReads(git_metrics) : Call(w, now)

NextCalls == CalculateRiskScoreWeighted

SpecCalls == InitCalls /\ [][NextCalls]_vars

(***************************************************************************)
(* GitActivityAnalyzer (src/git_analyzer/analyzer.py).  A repository is    *)
(* the sequence of its commits, oldest first, each a record [hash,         *)
(* committer_date (in days), author, merge, modified_files]; a modified    *)
(* file is [old_path, new_path, added_lines, deleted_lines].               *)
(***************************************************************************)
\* the new_path of a deleted file
NoPath == "None"

\* Path(file_path).parts
Parts(file_path) ==
    CASE file_path = "docs/build.py" -> <<"docs", "build.py">>
      [] file_path = "venv/A" -> <<"venv", "A">>
      [] OTHER -> <<file_path>>

\* _setup_ignored_paths
ignored_paths ==
    {"site-packages", "__pycache__", ".pytest_cache", ".git", "node_modules",
     "venv", ".venv", "env", "dist", "build", ".mypy_cache", ".ruff_cache"}

\* GitActivityAnalyzer._should_ignore_file
ShouldIgnoreFile(file_path) ==
    IF file_path = NoPath \/ file_path = "" THEN TRUE
    ELSE LET parts == Parts(file_path)
         IN \/ \E i \in 1..Len(parts) : parts[i] = "site-packages"
            \/ \E i \in 1..Len(parts) : parts[i] \in ignored_paths

\* a defect: a commit is ignored only when every file it modifies is
ShouldIgnoreCommitEvery(commit) ==
    \A i \in 1..Len(commit.modified_files) :
        ShouldIgnoreFile(commit.modified_files[i].new_path)

\* GitActivityAnalyzer._should_ignore_commit
ShouldIgnoreCommit(commit) ==
    \E i \in 1..Len(commit.modified_files) :
        ShouldIgnoreFile(commit.modified_files[i].new_path)

\* ModifiedFile.filename: the last part of the new path, or of the old path
\* of a deleted file; every file of the model but README.md is a .py file
EndsWithPy(f) ==
    (IF f.new_path = NoPath THEN f.old_path ELSE f.new_path) # "README.md"

\* only_modifications_with_file_types=['.py']: the commit modifies a .py file
HasModificationWithFileType(commit) ==
    \E i \in 1..Len(commit.modified_files) : EndsWithPy(commit.modified_files[i])

\* Repository(path, only_modifications_with_file_types=['.py'],
\* only_in_branch='main', only_no_merge=True).traverse_commits(); every
\* commit of the model is on main
TraverseCommits(repo) ==
    SelectSeq(repo, LAMBDA c : ~c.merge /\ HasModificationWithFileType(c))

\* _get_filtered_repository: the hashes of the commits that are not ignored
ValidCommits(repo) ==
    {c.hash : c \in {x \in Range(TraverseCommits(repo)) : ~ShouldIgnoreCommit(x)}}

\* self.driller_repo.traverse_commits(): only_commits=valid_commits
TraverseFiltered(repo, valid_commits) ==
    SelectSeq(TraverseCommits(repo), LAMBDA c : c.hash \in valid_commits)

\* the loops over the commits and their modified files: one dict is appended
\* for every modified file that is not ignored
KeptFiles(commit) ==
    SelectSeq(commit.modified_files, LAMBDA f : ~ShouldIgnoreFile(f.new_path))

RECURSIVE Appended(_)
Appended(commits) ==
    IF commits = <<>> THEN <<>>
    ELSE LET commit == Head(commits)
             kept == KeptFiles(commit)
         IN [i \in 1..Len(kept) |->
                [file_path |-> kept[i].new_path,
                 commit_date |-> commit.committer_date,
                 author |-> commit.author,
                 changes |-> kept[i].added_lines + kept[i].deleted_lines]]
            \o Appended(Tail(commits))

\* the dicts of one file
OfFile(records, f) == SelectSeq(records, LAMBDA r : r.file_path = f)

\* df.sort_values('last_modified').groupby('file_path').last().reset_index():
\* per file, the row of its latest commit (the commits of the model have
\* distinct dates)
LatestOf(rs) ==
    rs[CHOOSE i \in 1..Len(rs) :
          \A j \in 1..Len(rs) : rs[j].commit_date <= rs[i].commit_date]

\* get_file_last_modified, on the commits it traverses
FileLastModified(commits) ==
    LET file_dates == Appended(commits)
        ks == SortedKeys(file_dates)
    IN IF file_dates = <<>> THEN EmptyDF
       ELSE [cols |-> {"file_path", "last_modified", "author"},
             rows |-> [i \in 1..Len(ks) |->
                LET last == LatestOf(OfFile(file_dates, ks[i]))
                IN [file_path |-> ks[i],
                    last_modified |-> [repr |-> "datetime", t |-> last.commit_date],
                    author |-> last.author]]]

\* the default time_window of get_change_frequency, '30D', in days
TimeWindow == 30

\* groupby('file_path').resample(time_window).size() for one file: the bins
\* of time_window days from the day of its first change to that of its last,
\* each labelled with its first day and holding the number of changes in it
Resampled(f, rs, window) ==
    LET dates == {rs[i].commit_date : i \in 1..Len(rs)}
        first == CHOOSE d \in dates : \A e \in dates : d <= e
        last == CHOOSE d \in dates : \A e \in dates : e <= d
        bins == ((last - first) \div window) + 1
    IN [b \in 1..bins |->
           [file_path |-> f,
            window_end |-> first + (b - 1) * window,
            change_count |->
                R(Cardinality({i \in 1..Len(rs) :
                      (rs[i].commit_date - first) \div window = b - 1}))]]

RECURSIVE ResampledAll(_, _, _)
ResampledAll(ks, changes, window) ==
    IF ks = <<>> THEN <<>>
    ELSE Resampled(Head(ks), OfFile(changes, Head(ks)), window)
            \o ResampledAll(Tail(ks), changes, window)

\* get_change_frequency(time_window), on the commits it traverses
ChangeFrequency(commits, window) ==
    LET changes == Appended(commits)
    IN IF changes = <<>> THEN EmptyDF
       ELSE [cols |-> {"file_path", "window_end", "change_count"},
             rows |-> ResampledAll(SortedKeys(changes), changes, window)]

\* the changes of each author of a file, summed
AuthorsOf(rs) == {rs[i].author : i \in 1..Len(rs)}

RECURSIVE ChangesSum(_, _)
ChangesSum(rs, by) ==
    IF rs = <<>> THEN 0
    ELSE (IF Head(rs).author \in by THEN Head(rs).changes ELSE 0)
            + ChangesSum(Tail(rs), by)

\* x.nlargest(2).sum(): the sum of the two largest per-author totals
TopTwo(rs) ==
    LET as == AuthorsOf(rs)
        pairs == {by \in SUBSET as : Cardinality(by) <= 2}
    IN CHOOSE m \in {ChangesSum(rs, by) : by \in pairs} :
          \A by \in pairs : ChangesSum(rs, by) <= m

\* get_authorship_churn, on the commits it traverses
AuthorshipChurn(commits) ==
    LET author_changes == Appended(commits)
        ks == SortedKeys(author_changes)
    IN IF author_changes = <<>> THEN EmptyDF
       ELSE [cols |-> {"file_path", "num_authors", "top_two_authors_contribution"},
             rows |-> [i \in 1..Len(ks) |->
                LET rs == OfFile(author_changes, ks[i])
                    total_changes == ChangesSum(rs, AuthorsOf(rs))
                IN [file_path |-> ks[i],
                    num_authors |-> R(Cardinality(AuthorsOf(rs))),
                    top_two_authors_contribution |->
                        IF total_changes > 0
                        THEN Norm(TopTwo(rs), total_changes) ELSE Zero]]]

\* the keys of the mapping analyze() builds, in the order it builds them
AnalysisKeys == <<"last_modified", "change_frequency", "authorship_churn">>

\* the table of one key
Analysed(key, commits) ==
    CASE key = "last_modified" -> FileLastModified(commits)
      [] key = "change_frequency" -> ChangeFrequency(commits, TimeWindow)
      [] key = "authorship_churn" -> AuthorshipChurn(commits)

\* results[key] = table
Put(results, key, table) ==
    [k \in DOMAIN results \cup {key} |-> IF k = key THEN table ELSE results[k]]


\* GitActivityAnalyzer(repo_path): __init__ keeps the hashes of the commits
\* _get_filtered_repository found valid
Constructed(repo) ==
    [NoAnalyzer EXCEPT !.pc = "constructed", !.valid_commits = ValidCommits(repo)]

\* one of the three calls analyze() makes, in its try block: the table is
\* stored under its key and the last call makes analyze() return; fails is
\* whether the traversal raised, and then the handler of the call logs the
\* exception and raises it again, and so does the handler of analyze()
Got(an, repo, i, fails) ==
    IF fails THEN [an EXCEPT !.pc = "raised", !.exc = "Exception"]
    ELSE [an EXCEPT
            !.pc = IF i = Len(AnalysisKeys) THEN "returned" ELSE "constructed",
            !.results = Put(an.results, AnalysisKeys[i],
                            Analysed(AnalysisKeys[i],
                                     TraverseFiltered(repo, an.valid_commits)))]

\* GitActivityAnalyzer.analyze() as a whole; fault is the call that fails
RECURSIVE AnalyzeFrom(_, _, _, _)
AnalyzeFrom(i, an, repo, fault) ==
    IF i > Len(AnalysisKeys) \/ an.pc # "constructed" THEN an
    ELSE AnalyzeFrom(i + 1, Got(an, repo, i, fault = AnalysisKeys[i]), repo, fault)

Analyze(repo, fault) == AnalyzeFrom(1, Constructed(repo), repo, fault)

(***************************************************************************)
(* The repositories of the model: at most two commits, the first by x on   *)
(* day -20 or 0 and the second on day 10, each modifying one or two files. *)
(***************************************************************************)
Modified(path) ==
    [old_path |-> path, new_path |-> path, added_lines |-> 1, deleted_lines |-> 0]
Deleted(path) ==
    [old_path |-> path, new_path |-> NoPath, added_lines |-> 0, deleted_lines |-> 1]

ModifiedFiles ==
    <<Modified("A"), Modified("B"), Modified("README.md"),
      Modified("docs/build.py"), Modified("venv/A"), Deleted("B")>>

FileLists ==
    {<<ModifiedFiles[i]>> : i \in 1..Len(ModifiedFiles)}
      \cup {<<ModifiedFiles[p[1]], ModifiedFiles[p[2]]>> :
                p \in {q \in (1..Len(ModifiedFiles)) \X (1..Len(ModifiedFiles)) :
                          q[1] < q[2]}}

Commit(hash, day, author, merge, files) ==
    [hash |-> hash, committer_date |-> day, author |-> author, merge |-> merge,
     modified_files |-> files]

Repositories ==
    LET first == {Commit(1, d, "x", FALSE, fs) : d \in {-20, 0}, fs \in FileLists}
        second == {Commit(2, 10, a, m, fs) :
                      a \in {"x", "y"}, m \in BOOLEAN, fs \in FileLists}
    IN {<<>>} \cup {<<c>> : c \in first} \cup {<<c, d>> : c \in first, d \in second}

\* the metric tables of a scorer that was handed empty tables
NoMetrics(keys) == [k \in keys |-> EmptyDF]

\* no scorer has been made
NoScorer ==
    /\ git_metrics = NoMetrics(GitKeys)
    /\ static_metrics = NoMetrics(StaticKeys)
    /\ NotYetCalled

InitGit ==
    /\ repository \in Repositories
    /\ analyzer = NoAnalyzer
    /\ NoScorer
    /\ AppAtRest

\* GitActivityAnalyzer(str(repo_path))
Construct ==
    /\ analyzer.pc = "none"
    /\ analyzer' = Constructed(repository)
    /\ UNCHANGED <<repository, scorerVars, appVars>>

\* call i of analyze(), made once the calls before it have returned
Get(i, fails) ==
    /\ analyzer.pc = "constructed"
    /\ DOMAIN analyzer.results = {AnalysisKeys[j] : j \in 1..(i - 1)}
    /\ analyzer' = Got(analyzer, repository, i, fails)
    /\ UNCHANGED <<repository, scorerVars, appVars>>

GetFileLastModified == \E fails \in BOOLEAN : Get(1, fails)
GetChangeFrequency == \E fails \in BOOLEAN : Get(2, fails)
GetAuthorshipChurn == \E fails \in BOOLEAN : Get(3, fails)

NextGit ==
    \/ Construct
    \/ GetFileLastModified
    \/ GetChangeFrequency
    \/ GetAuthorshipChurn

SpecGit == InitGit /\ [][NextGit]_vars


(***************************************************************************)
(* StaticCodeAnalyzer (src/static_analyzer/analyzer.py), as far as the     *)
(* scorer reads its tables: the file_path and the raw column of each.      *)
(* What radon and coverage.py find in the files is an input of the model.  *)
(***************************************************************************)
\* self.python_files
PythonFiles == {"A", "B"}

\* the cyclomatic complexity of each function, the maintainability index of
\* each file and the line coverage of each covered file
Measured(key) ==
    CASE key = "complexity" -> <<<<"A", 10>>, <<"B", 30>>, <<"B", 10>>>>
      [] key = "maintainability" -> <<<<"A", 30>>, <<"B", 10>>>>
      [] key = "test_coverage" -> <<<<"A", 20>>>>

\* analyze_complexity and analyze_maintainability: a file whose reading or
\* visiting raises is reported and left out, the other files give their rows
AnalyzePerFile(key, unreadable) ==
    Table(key, SelectSeq(Measured(key), LAMBDA c : c[1] \notin unreadable), "str")

\* analyze_test_coverage: whatever fails (no tests, a failed test run, no
\* report, an exception) gives an empty table
AnalyzeTestCoverage(fails) ==
    IF fails THEN EmptyDF ELSE Table("test_coverage", Measured("test_coverage"), "str")

(***************************************************************************)
(* application.main.  Streamlit runs the script from the top at every      *)
(* interaction; st.session_state lasts from run to run.                    *)
(***************************************************************************)
\* the names tempfile.mkdtemp can return
TempNames == {"tmp1", "tmp2"}

\* the checkboxes of the static analyses, all checked by default
Options == {"complexity", "maintainability", "dead_code", "code_smells", "coverage"}
OptionSets == {Options, Options \ {"coverage"}}

\* the slider values: the defaults, and the authorship slider moved
SliderSettings ==
    {SliderDefaults, [SliderDefaults EXCEPT !["authorship"] = Zero],
     [SliderDefaults EXCEPT !["authorship"] = One]}

\* the collaborator operation that fails during an analysis, if one does
GitFaults == {"last_modified", "change_frequency", "authorship_churn"}
Faults == {"none", "complexity", "maintainability", "test_coverage", "code_smells"}
             \cup GitFaults

\* static_metrics as the if statements of main fill it
StaticKeyOf(option) == IF option = "coverage" THEN "test_coverage" ELSE option

StaticMetrics(options, fault) ==
    [key \in {StaticKeyOf(o) : o \in options} |->
        CASE key \in {"complexity", "maintainability"} ->
                AnalyzePerFile(key, IF fault = key THEN PythonFiles ELSE {})
          [] key = "test_coverage" -> AnalyzeTestCoverage(fault = key)
          [] OTHER -> EmptyDF]

\* 'analysis_results' not in st.session_state: st.session_state.analysis_results = None
Initialized(session) ==
    IF "analysis_results" \in DOMAIN session THEN session
    ELSE [k \in {"analysis_results"} |-> None]

\* a defect: the handler reports the error and leaves the results alone
FailedKept(session) == session

\* except Exception: st.session_state.analysis_results = None
Failed(session) == [session EXCEPT !["analysis_results"] = None]

\* st.session_state.analysis_results = {...}
Stored(session, run, res) ==
    [session EXCEPT !["analysis_results"] =
        [risk_scores |-> res.df, git_metrics |-> run.gm, static_metrics |-> run.sm]]

\* the script starts: the session state is initialized, the page is drawn
Started(mode) ==
    [NotRunning EXCEPT !.pc = "started", !.analysis_mode = mode]

\* one run of the script begins; the user has chosen the input mode and has
\* or has not entered a path or a URL (a local path may not exist).  Without
\* a usable input the script returns
Rerun(mode, usable) ==
    /\ main.pc = "idle"
    /\ session_state' = Initialized(session_state)
    /\ IF ~usable THEN /\ main' = [Started(mode) EXCEPT !.pc = "idle"]
                       /\ UNCHANGED temp_dirs
       ELSE IF mode = "Local Repository"
       THEN /\ main' = [Started(mode) EXCEPT !.pc = "ready"]
            /\ UNCHANGED temp_dirs
       ELSE \E temp_dir \in TempNames \ temp_dirs :
               /\ temp_dirs' = temp_dirs \cup {temp_dir}
               /\ main' = [Started(mode) EXCEPT !.pc = "cloning", !.temp_dir = temp_dir]
    /\ UNCHANGED <<scorerVars, gitVars>>

\* Repo.clone_from(github_url, temp_dir): it succeeds, or it raises and the
\* handler removes the directory and returns
CloneRepository(cloned) ==
    /\ main.pc = "cloning"
    /\ IF cloned THEN /\ main' = [main EXCEPT !.pc = "ready"]
                      /\ UNCHANGED temp_dirs
       ELSE /\ main' = [main EXCEPT !.pc = "idle", !.error = "Repo.clone_from"]
            /\ temp_dirs' = temp_dirs \ {main.temp_dir}
    /\ UNCHANGED <<scorerVars, gitVars, session_state>>

\* the repository the analysis reads is there: a local one, or the clone in a
\* temporary directory that is still on disk
Readable == main.analysis_mode = "Local Repository" \/ main.temp_dir \in temp_dirs

\* the except clause of the analysis: st.error and analysis_results = None
Caught(thrower, fault) ==
    /\ main' = [main EXCEPT !.pc = "analysed", !.failed = fault,
                            !.message = "error", !.error = thrower]
    /\ session_state' = Failed(session_state)

\* lines 214-224: the scorer is made over the tables and called; what it
\* returns is stored with the tables, what it raises is caught
ScoredRun(run, w, now, fault) ==
    /\ git_metrics' = run.gm
    /\ static_metrics' = run.sm
    /\ scaler' = run.scaler
    /\ scores' = run.scores
    /\ aligned' = run.aligned
    /\ weights' = w
    /\ clock' = now
    /\ \E res \in run.results :
          /\ result' = res
          /\ IF res.status = "raised" THEN Caught("RiskScorer", fault)
             ELSE /\ main' = [main EXCEPT !.pc = "analysed", !.failed = fault,
                                          !.message = "success"]
                  /\ session_state' = Stored(session_state, run, res)

\* the static analyses and the scoring, after analyze() has returned
StaticsAndScore(an, options, fault, w) ==
    IF fault = "code_smells" /\ "code_smells" \in options
    THEN Caught("StaticCodeAnalyzer", fault) /\ UNCHANGED scorerVars
    ELSE \E now \in ClockReads(an.results) :
         \E run \in {RiskRun(an.results, StaticMetrics(options, fault), NewScaler,
                             w, now)} :
            ScoredRun(run, w, now, fault)

\* the button Start Analysis is clicked: the try block of main
StartAnalysis(options, sliders, fault) ==
    /\ main.pc = "ready"
    /\ fault \in {"none", "code_smells"} \cup GitFaults
          \/ fault \in {StaticKeyOf(o) : o \in options}
    /\ \E an \in {IF Readable THEN Analyze(repository, fault)
                  ELSE [NoAnalyzer EXCEPT !.pc = "raised", !.exc = "NoSuchPathError"]} :
          /\ analyzer' = an
          /\ IF an.pc = "raised"
             THEN Caught("GitActivityAnalyzer", IF Readable THEN fault ELSE "none")
                     /\ UNCHANGED scorerVars
             ELSE StaticsAndScore(an, options, fault, AppWeights(sliders))
    /\ UNCHANGED <<repository, temp_dirs>>

\* the button is not clicked in this run
SkipAnalysis ==
    /\ main.pc = "ready"
    /\ main' = [main EXCEPT !.pc = "analysed"]
    /\ UNCHANGED <<scorerVars, gitVars, session_state, temp_dirs>>

\* lines 229-247: the dashboard is shown when there are results, and then
\* the temporary directory is removed; the script ends
ShowDashboard ==
    /\ main.pc = "analysed"
    /\ IF session_state["analysis_results"] # None
       THEN /\ main' = [main EXCEPT !.pc = "idle", !.dashboard = TRUE]
            /\ temp_dirs' = IF main.analysis_mode = "Public GitHub URL"
                            THEN temp_dirs \ {main.temp_dir} ELSE temp_dirs
       ELSE /\ main' = [main EXCEPT !.pc = "idle"]
            /\ UNCHANGED temp_dirs
    /\ UNCHANGED <<scorerVars, gitVars, session_state>>

\* the repositories the application is pointed at
AppRepositories ==
    {<<>>,
     <<Commit(1, 0, "x", FALSE, <<Modified("A")>>)>>,
     <<Commit(1, -20, "x", FALSE, <<Modified("A"), Modified("B")>>),
       Commit(2, 10, "y", FALSE, <<Modified("A")>>)>>}

InitApp ==
    /\ repository \in AppRepositories
    /\ analyzer = NoAnalyzer
    /\ NoScorer
    /\ AppAtRest

NextApp ==
    \/ \E mode \in {"Local Repository", "Public GitHub URL"} :
       \E usable \in BOOLEAN : Rerun(mode, usable)
    \/ \E cloned \in BOOLEAN : CloneRepository(cloned)
    \/ \E options \in OptionSets : \E sliders \in SliderSettings :
       \E fault \in Faults : StartAnalysis(options, sliders, fault)
    \/ SkipAnalysis
    \/ ShowDashboard

SpecApp == InitApp /\ [][NextApp]_vars

(***************************************************************************)
(* Vocabulary of the properties.                                           *)
(***************************************************************************)
KeyOf(k) ==
    CASE k = "aging" -> "last_modified"
      [] k = "frequency" -> "change_frequency"
      [] k = "complexity" -> "complexity"
      [] k = "maintainability" -> "maintainability"
      [] k = "coverage" -> "test_coverage"

KindIndex(k) == CHOOSE i \in 1..Len(Kinds) : Kinds[i] = k

\* the table the scorer holds for a kind; no table when the key is missing
InputOf(k) ==
    LET key == KeyOf(k)
        metrics == IF key \in GitKeys THEN git_metrics ELSE static_metrics
    IN IF key \in DOMAIN metrics THEN metrics[key] ELSE EmptyDF

HasRows(k) == ~IsEmpty(InputOf(k))
AllKeysPresent == DOMAIN git_metrics = GitKeys /\ DOMAIN static_metrics = StaticKeys
HasReturned == result.status = "returned"
Ranking == result.df.rows
OnlyKind(k) == HasRows(k) /\ \A j \in KindSet \ {k} : ~HasRows(j)
PathsOf(df) == {df.rows[i]["file_path"] : i \in 1..Len(df.rows)}
UniquePaths(df) ==
    \A i, j \in 1..Len(df.rows) :
        i # j => df.rows[i]["file_path"] # df.rows[j]["file_path"]
InUnit(x) == RLe(Zero, x) /\ RLe(x, One)

\* the polarity the specification gives a kind
Adjusted(k, score) ==
    CASE k \in {"aging", "frequency", "complexity"} -> score
      [] k \in {"maintainability", "coverage"} -> RSub(One, score)

\* the <<file, risk_score>> pairs of the ranking, in order
RankedRisk == [i \in 1..Len(Ranking) |->
                 <<Ranking[i]["file_path"], Ranking[i]["risk_score"]>>]

\* the <<file, raw value>> pairs of the table of a kind, in order
CellsOf(k) ==
    LET df == InputOf(k)
    IN [i \in 1..Len(df.rows) |->
          <<df.rows[i]["file_path"],
            IF k = "aging" THEN df.rows[i][RawCol(KeyOf(k))].t
            ELSE df.rows[i][RawCol(KeyOf(k))][1]>>]

(***************************************************************************)
(* C1: every row returned by calculate_risk_score has 0 <= risk_score <= 1,*)
(* for all metric tables (every key present) and non-negative weights.     *)
(* Stated as the claim states it; the code violates it.                    *)
(***************************************************************************)
C1_RiskScoreInUnitInterval ==
    (HasReturned /\ AllKeysPresent) =>
        \A i \in 1..Len(Ranking) : InUnit(Ranking[i]["risk_score"])

(***************************************************************************)
(* C2: calculate_risk_score never raises when a metric table is empty or   *)
(* its key is missing, and when some table has rows the result is not      *)
(* empty and has the columns file_path and risk_score.  Stated as the      *)
(* claim states it; the code violates it.                                  *)
(***************************************************************************)
C2_CompletesWithoutRaising ==
    /\ result.status # "raised"
    /\ (HasReturned /\ \E k \in KindSet : HasRows(k)) =>
          /\ ~IsEmpty(result.df)
          /\ {"file_path", "risk_score"} \subseteq result.df.cols

(***************************************************************************)
(* C3: the risk_score of each row is the sum of weight * contribution over *)
(* the kinds whose table has rows, divided by the sum of the weights of    *)
(* those kinds; the weight of a kind whose table is empty enters neither   *)
(* sum.  (The quotient is defined when the applied weight is positive.)    *)
(***************************************************************************)
AppliedTerm(k, row) ==
    IF HasRows(k) THEN RMul(weights[k], Adjusted(k, row[ScoreCol(k)])) ELSE Zero

AppliedWeightOf(k) == IF HasRows(k) THEN weights[k] ELSE Zero

AppliedSum(row) ==
    RAdd(RAdd(RAdd(RAdd(AppliedTerm("aging", row), AppliedTerm("frequency", row)),
                   AppliedTerm("complexity", row)),
              AppliedTerm("maintainability", row)),
         AppliedTerm("coverage", row))

AppliedWeight ==
    RAdd(RAdd(RAdd(RAdd(AppliedWeightOf("aging"), AppliedWeightOf("frequency")),
                   AppliedWeightOf("complexity")),
              AppliedWeightOf("maintainability")),
         AppliedWeightOf("coverage"))

C3_RenormalizedByAppliedWeight ==
    HasReturned =>
        LET applied == AppliedWeight IN
        RLt(Zero, applied) =>
            \A i \in 1..Len(Ranking) :
                RMul(Ranking[i]["risk_score"], applied) = AppliedSum(Ranking[i])

\* a weighted kind with rows beside a weighted kind without rows, and a row
\* whose risk_score is 1: the weight of the absent kind deflates nothing
C3_Witness ==
    /\ HasReturned
    /\ \E k, j \in KindSet :
          /\ HasRows(k) /\ RLt(Zero, weights[k])
          /\ ~HasRows(j) /\ RLt(Zero, weights[j])
    /\ \E i \in 1..Len(Ranking) : Ranking[i]["risk_score"] = One

(***************************************************************************)
(* C4: when exactly one kind has rows and its weight is positive, the      *)
(* risk_score of every row is the polarity-adjusted score of that kind,    *)
(* whatever the weights; the complexity table (A,10),(B,30),(C,20) alone   *)
(* gives A = 0, C = 1/2, B = 1 and the order B, C, A.                      *)
(***************************************************************************)
ExampleComplexity == <<<<"A", 10>>, <<"B", 30>>, <<"C", 20>>>>

C4_SingleKindRiskIsItsScore ==
    HasReturned =>
        /\ \A k \in KindSet :
              (OnlyKind(k) /\ RLt(Zero, weights[k])) =>
                  \A i \in 1..Len(Ranking) :
                      Ranking[i]["risk_score"] = Adjusted(k, Ranking[i][ScoreCol(k)])
        /\ (/\ OnlyKind("complexity")
            /\ RLt(Zero, weights["complexity"])
            /\ CellsOf("complexity") = ExampleComplexity) =>
               RankedRisk = <<<<"B", One>>, <<"C", Half>>, <<"A", Zero>>>>

\* the example, ranked under a weight map that also weights an absent kind
C4_Witness ==
    /\ HasReturned
    /\ OnlyKind("complexity")
    /\ CellsOf("complexity") = ExampleComplexity
    /\ weights["complexity"] = One
    /\ weights["aging"] = One
    /\ RankedRisk = <<<<"B", One>>, <<"C", Half>>, <<"A", Zero>>>>

(***************************************************************************)
(* C5: polarity.  With one kind alone, weighted, and one row per file: for *)
(* maintainability and coverage a file with a lower raw value never ranks  *)
(* below a file with a higher one (the score enters as 1 - s); for         *)
(* frequency and complexity a file with a higher raw value never ranks     *)
(* below a file with a lower one (the score enters as s), and so for aging *)
(* whenever some file has a positive age.                                  *)
(***************************************************************************)
RawOfPath(k, f) ==
    LET cells == CellsOf(k)
    IN cells[CHOOSE i \in 1..Len(cells) : cells[i][1] = f][2]

\* aging is scored on the age, which falls as the timestamp rises
RanksHigher(k, a, b) ==
    IF k \in {"maintainability", "coverage", "aging"} THEN a < b ELSE a > b

SomePositiveAge ==
    \E i \in 1..Len(InputOf("aging").rows) :
        RLt(Zero, InputOf("aging").rows[i]["age_days"])

C5_PolarityOrdersTheRanking ==
    HasReturned =>
        \A k \in KindSet :
            (/\ OnlyKind(k)
             /\ RLt(Zero, weights[k])
             /\ UniquePaths(InputOf(k))
             /\ (k = "aging" => SomePositiveAge)) =>
                \A i, j \in 1..Len(Ranking) :
                    RanksHigher(k, RawOfPath(k, Ranking[i]["file_path"]),
                                   RawOfPath(k, Ranking[j]["file_path"])) => i < j

\* the maintainability table (A,30),(B,10) alone ranks B before A
C5_Witness ==
    /\ HasReturned
    /\ OnlyKind("maintainability")
    /\ RLt(Zero, weights["maintainability"])
    /\ CellsOf("maintainability") = <<<<"A", 30>>, <<"B", 10>>>>
    /\ RankedRisk = <<<<"B", One>>, <<"A", Zero>>>>

(***************************************************************************)
(* The score tables and the raw value each of their rows was scored on.    *)
(***************************************************************************)
\* the table calculate_<kind>_score returned in the last call, if it ran
ScoreTable(k) ==
    IF KindIndex(k) <= Len(scores) THEN scores[KindIndex(k)] ELSE EmptyDF

ScoreAt(k, i) == ScoreTable(k).rows[i][ScoreCol(k)]

RECURSIVE SumOver(_, _, _)
SumOver(S, rows, c) ==
    IF S = {} THEN Zero
    ELSE LET i == CHOOSE x \in S : TRUE
         IN RAdd(rows[i][c], SumOver(S \ {i}, rows, c))

\* the arithmetic mean of the raw values of the rows of a file
PathMean(k, f) ==
    LET rows == InputOf(k).rows
        S == {i \in 1..Len(rows) : rows[i]["file_path"] = f}
    IN RDiv(SumOver(S, rows, RawCol(KeyOf(k))), R(Cardinality(S)))

\* the raw metric of row i of the score table of a kind: the age in days,
\* the per-file mean, or the cell of the raw column
RawAt(k, i) ==
    CASE k = "aging" -> InputOf(k).rows[i]["age_days"]
      [] k \in {"frequency", "complexity"} ->
            PathMean(k, ScoreTable(k).rows[i]["file_path"])
      [] k \in {"maintainability", "coverage"} -> InputOf(k).rows[i][RawCol(KeyOf(k))]

ScoreRows(k) == 1..Len(ScoreTable(k).rows)
RawsOf(k) == [i \in ScoreRows(k) |-> RawAt(k, i)]
Lowest(raw) == {i \in DOMAIN raw : \A j \in DOMAIN raw : RLe(raw[i], raw[j])}
Highest(raw) == {i \in DOMAIN raw : \A j \in DOMAIN raw : RLe(raw[j], raw[i])}
IsConstant(raw) == \A i, j \in DOMAIN raw : raw[i] = raw[j]
Scaled == {"frequency", "complexity", "maintainability", "coverage"}

\* score = (value - min) / (max - min) over the rows of the run, so that the
\* lowest row scores 0 and the highest row scores 1
MinMaxScored(k) ==
    LET raw == RawsOf(k) IN
    ~IsConstant(raw) =>
        \A lo \in Lowest(raw), hi \in Highest(raw) :
            /\ ScoreAt(k, lo) = Zero
            /\ ScoreAt(k, hi) = One
            /\ \A i \in DOMAIN raw :
                  ScoreAt(k, i) = RDiv(RSub(raw[i], raw[lo]), RSub(raw[hi], raw[lo]))

\* the aging score is the age over the largest age of the run when that is
\* positive, and 0 for every row otherwise
AgeScored ==
    LET raw == RawsOf("aging") IN
    \A hi \in Highest(raw) :
        IF RLt(Zero, raw[hi])
        THEN /\ ScoreAt("aging", hi) = One
             /\ \A i \in DOMAIN raw : RMul(ScoreAt("aging", i), raw[hi]) = raw[i]
        ELSE \A i \in DOMAIN raw : ScoreAt("aging", i) = Zero

C8_ScoresInUnitIntervalMonotonic ==
    \A k \in KindSet :
        LET raw == RawsOf(k) IN
        /\ \A i \in ScoreRows(k) : InUnit(ScoreAt(k, i))
        /\ \A i, j \in ScoreRows(k) :
              RLe(raw[i], raw[j]) => RLe(ScoreAt(k, i), ScoreAt(k, j))

(***************************************************************************)
(* C9: the file paths of the result are the union of the file paths of the *)
(* tables that have rows, and the merged table holds the same rows (the    *)
(* same files with the same score values) in whatever order the score      *)
(* tables are merged.                                                      *)
(***************************************************************************)
NonEmptyScores == SelectSeq(scores, LAMBDA df : ~IsEmpty(df))

Orders(n) == {p \in [1..n -> 1..n] : \A i, j \in 1..n : i # j => p[i] # p[j]}

Count(rows, r) == Cardinality({i \in 1..Len(rows) : rows[i] = r})

SameRows(a, b) ==
    /\ a.cols = b.cols
    /\ Len(a.rows) = Len(b.rows)
    /\ \A i \in 1..Len(a.rows) : Count(a.rows, a.rows[i]) = Count(b.rows, a.rows[i])

C9_JoinIsUnionInAnyOrder ==
    HasReturned =>
        /\ PathsOf(result.df) = UNION {PathsOf(InputOf(k)) : k \in KindSet}
        /\ PathsOf(aligned) = PathsOf(result.df)
        /\ \A p \in Orders(Len(NonEmptyScores)) :
              SameRows(aligned,
                       MergeAll([i \in 1..Len(NonEmptyScores) |-> NonEmptyScores[p[i]]],
                                EmptyDF))

\* two tables that share no file: the result holds the files of both
C9_Witness ==
    /\ HasReturned
    /\ \E k, j \in KindSet :
          /\ HasRows(k) /\ HasRows(j)
          /\ PathsOf(InputOf(k)) \cap PathsOf(InputOf(j)) = {}
          /\ PathsOf(result.df) = PathsOf(InputOf(k)) \cup PathsOf(InputOf(j))

(***************************************************************************)
(* C10: a file that has no row in the table of a kind that has rows is     *)
(* null in the score column of the kind after the merge and holds 0.5      *)
(* there in the result; its contribution is 0.5 for either polarity, so    *)
(* its risk_score is 0.5 when that kind alone is weighted.                 *)
(***************************************************************************)
AloneWeighted(k) ==
    /\ RLt(Zero, weights[k])
    /\ \A j \in KindSet \ {k} : HasRows(j) => weights[j] = Zero

C10_MissingFileImputedNeutral ==
    HasReturned =>
        \A k \in KindSet : HasRows(k) =>
            /\ \A i \in 1..Len(aligned.rows) :
                  aligned.rows[i]["file_path"] \notin PathsOf(InputOf(k))
                      => IsNaN(aligned.rows[i][ScoreCol(k)])
            /\ \A i \in 1..Len(Ranking) :
                  Ranking[i]["file_path"] \notin PathsOf(InputOf(k)) =>
                      /\ Ranking[i][ScoreCol(k)] = Half
                      /\ Adjusted(k, Ranking[i][ScoreCol(k)]) = Half
                      /\ AloneWeighted(k) => Ranking[i]["risk_score"] = Half

\* coverage has no row for B, complexity has: B holds 0.5 as coverage score
\* and, coverage alone being weighted, 0.5 as risk_score
C10_Witness ==
    /\ HasReturned
    /\ "B" \in PathsOf(InputOf("complexity")) \ PathsOf(InputOf("coverage"))
    /\ HasRows("coverage")
    /\ AloneWeighted("coverage")
    /\ \E i \in 1..Len(Ranking) :
          /\ Ranking[i]["file_path"] = "B"
          /\ Ranking[i]["coverage_score"] = Half
          /\ Ranking[i]["risk_score"] = Half

(***************************************************************************)
(* C11: imputation changes the null cells of the score columns and nothing *)
(* else: the returned rows are the rows of the merged table, each with its *)
(* file_path and its non-null score cells as they were and 0.5 in its null *)
(* score cells (and the risk_score beside them).                           *)
(***************************************************************************)
ImputedFrom(r, a) ==
    \A c \in DOMAIN a :
        r[c] = IF c # "file_path" /\ IsNaN(a[c]) THEN Half ELSE a[c]

C11_ImputationFillsOnlyNulls ==
    (HasReturned /\ ~IsEmpty(result.df)) =>
        /\ Len(Ranking) = Len(aligned.rows)
        /\ result.df.cols = aligned.cols \cup {"risk_score"}
        /\ \E p \in Orders(Len(Ranking)) :
              \A i \in 1..Len(Ranking) : ImputedFrom(Ranking[i], aligned.rows[p[i]])

\* a merged row with a null cell beside a score of 0, returned with 0.5 in
\* the one and 0 in the other
C11_Witness ==
    /\ HasReturned
    /\ \E i \in 1..Len(aligned.rows) : \E j \in 1..Len(Ranking) :
       \E c, d \in aligned.cols \ {"file_path"} :
          /\ IsNaN(aligned.rows[i][c]) /\ aligned.rows[i][d] = Zero
          /\ Ranking[j]["file_path"] = aligned.rows[i]["file_path"]
          /\ Ranking[j][c] = Half /\ Ranking[j][d] = Zero

(***************************************************************************)
(* C12: when the weights of the kinds that have rows are all zero (their   *)
(* sum is zero, the weights being non-negative) and the call returns rows, *)
(* every risk_score is exactly 0.5: nothing was divided by zero.           *)
(***************************************************************************)
\* the weight map the call worked with
Effective == WeightsOrDefault(weights)

NoAppliedWeight ==
    \A k \in KindSet : HasRows(k) => (k \in DOMAIN Effective /\ Effective[k] = Zero)

C12_ZeroWeightScoresNeutral ==
    (HasReturned /\ ~IsEmpty(result.df) /\ NoAppliedWeight) =>
        \A i \in 1..Len(Ranking) : Ranking[i]["risk_score"] = Half

\* all-zero weights, and weights that are positive only for kinds without
\* rows: two files, both 0.5
C12_Witness ==
    /\ HasReturned
    /\ NoAppliedWeight
    /\ weights \in {Zeros, Uneven}
    /\ Len(Ranking) = 2
    /\ \A i \in 1..Len(Ranking) : Ranking[i]["risk_score"] = Half

(***************************************************************************)
(* C13, as the claim states it: when every metric table is empty the       *)
(* merged table is empty and the result is a ranking with a risk_score     *)
(* column in which every score is 0.5.  The result has no such column.     *)
(***************************************************************************)
NoKindPresent == \A k \in KindSet : ~HasRows(k)

C14_RankingIsDescending ==
    HasReturned =>
        \A i \in 1..Len(Ranking) : \A j \in 1..Len(Ranking) :
            i < j => RLe(Ranking[j]["risk_score"], Ranking[i]["risk_score"])

\* the merge put a file of the lower risk first and the result has it last
C14_Witness ==
    /\ HasReturned
    /\ Len(Ranking) = 2
    /\ aligned.rows[1]["file_path"] = Ranking[2]["file_path"]
    /\ aligned.rows[2]["file_path"] = Ranking[1]["file_path"]
    /\ RLt(Ranking[2]["risk_score"], Ranking[1]["risk_score"])

(***************************************************************************)
(* C15: the ranking is stable: the returned rows are the rows of the       *)
(* merged table, and two rows of equal risk_score are in the order they    *)
(* had in the merged table.  Stated as the claim states it; the sort the   *)
(* code calls does not keep the order of equal scores.                     *)
(***************************************************************************)
C15_TiesKeepMergeOrder ==
    (HasReturned /\ ~IsEmpty(result.df)) =>
        \E p \in Orders(Len(Ranking)) :
            /\ \A i \in 1..Len(Ranking) : ImputedFrom(Ranking[i], aligned.rows[p[i]])
            /\ \A i, j \in 1..Len(Ranking) :
                  (i < j /\ Ranking[i]["risk_score"] = Ranking[j]["risk_score"])
                      => p[i] < p[j]

(***************************************************************************)
(* C16: a weights argument that omits keys is accepted and each omitted    *)
(* key takes its baseline value; no argument at all is the whole baseline. *)
(* The call on well-formed tables returns, and its scores are those of the *)
(* argument completed with the baseline.  Stated as the claim states it;   *)
(* the code raises KeyError for an omitted key whose kind has rows.        *)
(***************************************************************************)
Baseline == DefaultWeights

Completed(w) ==
    IF w = None THEN Baseline
    ELSE [k \in KindSet |-> IF k \in DOMAIN w THEN w[k] ELSE Baseline[k]]

WellFormed == \A k \in KindSet : HasRows(k) => "file_path" \in InputOf(k).cols

C16_OmittedWeightsTakeBaseline ==
    (result.status # "none" /\ WellFormed) =>
        /\ HasReturned
        /\ ~IsEmpty(result.df) =>
              result.df \in SortOutcomes(WithRisk(FillNa(aligned), Completed(weights)))

(***************************************************************************)
(* C17: weights are relative.  Had every weight of the call been           *)
(* multiplied by the same positive factor, every risk_score would be the   *)
(* same and the returned ranking would be a ranking of that call too; so   *)
(* for the weights application.main passes, the slider values divided by   *)
(* their total, against the slider values themselves.                      *)
(***************************************************************************)
Factors == {<<1, 2>>, <<2, 1>>, <<3, 1>>}

Scale(c, w) == [k \in DOMAIN w |-> RMul(c, w[k])]

\* the rankings the call could return under the weight map w
RankingsUnder(w) == SortOutcomes(WithRisk(FillNa(aligned), w))

C17_WeightsAreRelative ==
    (HasReturned /\ ~IsEmpty(result.df)) =>
        /\ \A c \in Factors : result.df \in RankingsUnder(Scale(c, Effective))
        /\ weights = AppWeights(SliderDefaults) =>
              result.df \in RankingsUnder(SliderDefaults)

\* a call with the weights of application.main that ranks two files apart
C17_Witness ==
    /\ HasReturned
    /\ weights = AppWeights(SliderDefaults)
    /\ weights # SliderDefaults
    /\ Len(Ranking) = 2
    /\ RLt(Ranking[2]["risk_score"], Ranking[1]["risk_score"])
    /\ RLt(Zero, Ranking[2]["risk_score"])

(***************************************************************************)
(* C18: a malformed table makes the call fail fast.  When a table with     *)
(* rows lacks the file_path column, or a table that is not aggregated per  *)
(* file (last_modified, maintainability, test_coverage) holds two rows of  *)
(* one file_path, the call raises and returns no ranking.  Stated as the   *)
(* claim states it; the code joins the duplicated rows into the result.    *)
(***************************************************************************)
LacksPath(k) == HasRows(k) /\ "file_path" \notin InputOf(k).cols

DuplicatesPath(k) ==
    /\ k \in {"aging", "maintainability", "coverage"}
    /\ HasRows(k)
    /\ "file_path" \in InputOf(k).cols
    /\ ~UniquePaths(InputOf(k))

Malformed == \E k \in KindSet : LacksPath(k) \/ DuplicatesPath(k)

C18_MalformedTableFailsFast ==
    (result.status # "none" /\ Malformed) => result.status = "raised"

(***************************************************************************)
(* C19: a call leaves its inputs unchanged: every table of git_metrics and *)
(* static_metrics has after the call the columns and the cells it had      *)
(* before it.  Stated as the claim states it; the code writes its columns  *)
(* into the tables it was handed.                                          *)
(***************************************************************************)
C19_InputsUnchanged ==
    [][git_metrics' = git_metrics /\ static_metrics' = static_metrics]_vars

(***************************************************************************)
(* C20: a call does not depend on the calls before it.  Whatever calls     *)
(* were made, with whatever weights, the outcome of the next call is an    *)
(* outcome of the same call on a newly constructed scorer over the tables  *)
(* as they were handed over; and a call with the weights and the current   *)
(* time of the call before it has the same outcome, with the same rows     *)
(* (the arrangement of rows of equal risk_score aside).                    *)
(***************************************************************************)
\* the columns the scorer writes into the tables it was handed
Written == {"age_days", "aging_score", "maintainability_score", "coverage_score"}

AsHandedOver(metrics) ==
    [k \in DOMAIN metrics |-> Project(metrics[k], metrics[k].cols \ Written)]

SameOutcome(a, b) ==
    /\ a.status = b.status
    /\ a.exc = b.exc
    /\ SameRows(a.df, b.df)

C20_CallsAreIndependent ==
    [][/\ result' \in RiskRun(AsHandedOver(git_metrics), AsHandedOver(static_metrics),
                               NewScaler, weights', clock').results
       /\ (result.status # "none" /\ weights' = weights /\ clock' = clock)
             => SameOutcome(result, result')]_vars

\* a scorer that has been called: its scaler is fitted on the table of the
\* last kind and its tables hold the columns the call wrote
C20_Witness ==
    /\ HasReturned
    /\ Len(Ranking) = 2
    /\ scaler.fitted
    /\ "maintainability_score" \in static_metrics["maintainability"].cols
    /\ "aging_score" \in git_metrics["last_modified"].cols
    /\ weights = Uneven

(***************************************************************************)
(* C24: _normalize_metric on an empty table, or on a table without the     *)
(* named raw column, returns an empty score column and raises nothing; and *)
(* a kind whose table has rows but no raw column is treated as an absent   *)
(* kind: the call returns and the result has no score column of the kind.  *)
(* Stated as the claim states it; the code scores such a kind 0.5 in every *)
(* row and applies its weight, or raises.                                  *)
(***************************************************************************)
LacksRaw(k) == HasRows(k) /\ RawCol(KeyOf(k)) \notin InputOf(k).cols

C24_AbsentColumnIsAbsentKind ==
    /\ \A k \in KindSet :
          (~HasRows(k) \/ LacksRaw(k)) =>
              NormalizeMetric(InputOf(k), RawCol(KeyOf(k)), scaler).series = <<>>
    /\ (result.status # "none" /\ \E k \in KindSet : LacksRaw(k)) =>
          /\ HasReturned
          /\ \A k \in KindSet : LacksRaw(k) => ScoreCol(k) \notin result.df.cols

(***************************************************************************)
(* C25: a change_frequency or complexity table, which may hold several     *)
(* rows of one file, is reduced to one value per file, the arithmetic mean *)
(* of the rows of the file, and the frequency_score and complexity_score   *)
(* of a file are its mean min-max normalized over the means of the files.  *)
(***************************************************************************)
MeansOf(k) == {PathMean(k, f) : f \in PathsOf(InputOf(k))}
LowestOf(S) == CHOOSE x \in S : \A y \in S : RLe(x, y)
HighestOf(S) == CHOOSE x \in S : \A y \in S : RLe(y, x)

C25_ScoresAreOfPerFileMeans ==
    \A k \in {"frequency", "complexity"} :
        ~IsEmpty(ScoreTable(k)) =>
            LET lo == LowestOf(MeansOf(k))
                hi == HighestOf(MeansOf(k))
            IN /\ UniquePaths(ScoreTable(k))
               /\ PathsOf(ScoreTable(k)) = PathsOf(InputOf(k))
               /\ \A i \in ScoreRows(k) :
                     ScoreAt(k, i) =
                        IF hi = lo THEN Zero
                        ELSE RDiv(RSub(PathMean(k, ScoreTable(k).rows[i]["file_path"]), lo),
                                  RSub(hi, lo))

\* the rows (A,10),(B,30),(B,10),(C,20): B is scored on its mean 20, as C is
C25_Witness ==
    /\ HasReturned
    /\ \E k \in {"frequency", "complexity"} :
          /\ CellsOf(k) = SampleCells
          /\ [i \in ScoreRows(k) |-> <<ScoreTable(k).rows[i]["file_path"], ScoreAt(k, i)>>]
                = <<<<"A", Zero>>, <<"B", One>>, <<"C", One>>>>

(***************************************************************************)
(* C26: when the last_modified, maintainability and test_coverage tables   *)
(* hold at most one row per file_path (complexity and change_frequency may *)
(* hold many), the result has exactly one row per distinct file_path: the  *)
(* merged table and the result hold no file_path twice.                    *)
(***************************************************************************)
OneRowPerFile(k) ==
    HasRows(k) => ("file_path" \in InputOf(k).cols /\ UniquePaths(InputOf(k)))

C26_OneRowPerFile ==
    (HasReturned /\ \A k \in {"aging", "maintainability", "coverage"} : OneRowPerFile(k)) =>
        /\ UniquePaths(aligned)
        /\ UniquePaths(result.df)
        /\ Len(Ranking) = Cardinality(UNION {PathsOf(InputOf(k)) : k \in KindSet})

\* two rows of B in the change_frequency or complexity table, rows of
\* other files beside them: the result holds B once
C26_Witness ==
    /\ HasReturned
    /\ \E k \in {"frequency", "complexity"} :
          Cardinality({i \in 1..Len(InputOf(k).rows) :
                          InputOf(k).rows[i]["file_path"] = "B"}) = 2
    /\ Len(Ranking) >= 2
    /\ Cardinality({i \in 1..Len(Ranking) : Ranking[i]["file_path"] = "B"}) = 1

(***************************************************************************)
(* C27: calculate_aging_score never raises.  When the aging computation    *)
(* fails (no last_modified key, a table without the last_modified or the   *)
(* file_path column) its handler returns an empty table and aging is an    *)
(* absent kind: the call goes on to the other scores.  Stated as the claim *)
(* states it; the handler itself raises.                                   *)
(***************************************************************************)
AgingFails ==
    \/ "last_modified" \notin DOMAIN git_metrics
    \/ /\ HasRows("aging")
       /\ ~({"file_path", "last_modified"} \subseteq InputOf("aging").cols)

C27_AgingNeverRaises ==
    (result.status # "none" /\ AgingFails) =>
        /\ result.exc # "AttributeError"
        /\ Len(scores) = Len(Kinds) \/ result.status = "raised"
        /\ Len(scores) >= 1 /\ IsEmpty(scores[1])

(***************************************************************************)
(* Vocabulary of the properties of the history miner.                      *)
(***************************************************************************)
AnalysisReturned == analyzer.pc = "returned"

\* the table analyze() returned under a key, with rows and these columns
ReturnsTable(key, columns) ==
    /\ key \in DOMAIN analyzer.results
    /\ ~IsEmpty(analyzer.results[key])
    /\ columns \subseteq analyzer.results[key].cols

FilesOfCommit(c) == {c.modified_files[i] : i \in 1..Len(c.modified_files)}

\* the directory names the miner is to keep out of its tables
IgnoredNames ==
    {"site-packages", "__pycache__", ".git", "node_modules", "venv", ".venv",
     "env", "dist", "build", ".pytest_cache", ".mypy_cache", ".ruff_cache"}

\* a path that is no path, or that has an ignored component
Unwanted(path) ==
    \/ path \in {NoPath, ""}
    \/ \E i \in 1..Len(Parts(path)) : Parts(path)[i] \in IgnoredNames

\* a commit one of whose modified files is ignored
Tainted(c) == \E f \in FilesOfCommit(c) : Unwanted(f.new_path)

\* a commit the traversal yields: no merge, and one that modifies a .py file
Traversed(c) == ~c.merge /\ \E f \in FilesOfCommit(c) : EndsWithPy(f)

Untainted == {c \in Range(repository) : ~Tainted(c)}
Mined == {c \in Untainted : Traversed(c)}

Touching(cs, p) == {c \in cs : \E f \in FilesOfCommit(c) : f.new_path = p}

LatestDate(cs) ==
    CHOOSE d \in {c.committer_date : c \in cs} : \A c \in cs : c.committer_date <= d

RowOf(df, p) == df.rows[CHOOSE i \in 1..Len(df.rows) : df.rows[i]["file_path"] = p]

\* no row of a returned table holds an unwanted path
TablesClean ==
    \A key \in DOMAIN analyzer.results :
        \A p \in PathsOf(analyzer.results[key]) : ~Unwanted(p)

\* the returned tables hold what the commits cs did, and nothing else: a row
\* for each file they modified, its changes counted once per commit, dated by
\* the latest of them and attributed to their authors
Accounts(cs) ==
    LET paths == {p \in Range(PathSeq) : Touching(cs, p) # {}}
        tables == analyzer.results
    IN /\ \A key \in DOMAIN tables : PathsOf(tables[key]) = paths
       /\ \A p \in paths :
             /\ SumCol(tables["change_frequency"].rows, "change_count", p)
                   = R(Cardinality(Touching(cs, p)))
             /\ RowOf(tables["last_modified"], p)["last_modified"].t
                   = LatestDate(Touching(cs, p))
             /\ RowOf(tables["authorship_churn"], p)["num_authors"]
                   = R(Cardinality({c.author : c \in Touching(cs, p)}))

(***************************************************************************)
(* C23: for a repository with a commit that modifies a Python file that is *)
(* not ignored, analyze() returns a mapping with a non-empty               *)
(* change_frequency table (file_path, window_end, change_count) and a      *)
(* non-empty file_age table (file_path, last_modified, age_days), and the  *)
(* keys the scorer reads are keys of the mapping.  Stated as the claim     *)
(* states it; analyze() returns no file_age table.                         *)
(***************************************************************************)
ModifiesPython ==
    \E c \in Range(repository) : \E f \in FilesOfCommit(c) :
        EndsWithPy(f) /\ ~Unwanted(f.new_path)

C23_AnalyzeReturnsFrequencyAndAge ==
    (AnalysisReturned /\ ModifiesPython) =>
        /\ ReturnsTable("change_frequency", {"file_path", "window_end", "change_count"})
        /\ ReturnsTable("file_age", {"file_path", "last_modified", "age_days"})
        /\ GitKeys \subseteq DOMAIN analyzer.results

(***************************************************************************)
(* C30, as the claim states it: no row of a returned table has a file_path *)
(* that is empty or None or has an ignored component; a commit with an     *)
(* ignored file (a deleted file included) is dropped as a whole and every  *)
(* other commit contributes a row for each of its files.  A commit that is *)
(* a merge, or that modifies no .py file, contributes nothing either.      *)
(***************************************************************************)
C30_EveryUntaintedCommitCounted ==
    AnalysisReturned => (TablesClean /\ Accounts(Untainted))

(***************************************************************************)
(* C30, amended: no row of a returned table has a file_path that is empty  *)
(* or None or has an ignored component; of the commits the traversal       *)
(* yields (no merges, only commits that modify a .py file) a commit with   *)
(* an ignored file (a deleted file included) is dropped as a whole and     *)
(* every other one contributes a row for each of its files.                *)
(***************************************************************************)
C30_IgnoredCommitsDroppedAsAWhole ==
    AnalysisReturned => (TablesClean /\ Accounts(Mined))

\* a commit that modifies A beside an ignored file is dropped, and the other
\* commit, which modifies A alone, is the one change of A in the tables
C30_Witness ==
    /\ AnalysisReturned
    /\ Len(repository) = 2
    /\ Tainted(repository[1])
    /\ Touching({repository[1]}, "A") # {}
    /\ repository[2] \in Mined
    /\ PathsOf(analyzer.results["change_frequency"]) = {"A"}
    /\ SumCol(analyzer.results["change_frequency"].rows, "change_count", "A") = One
    /\ RowOf(analyzer.results["last_modified"], "A")["last_modified"].t = 10

(***************************************************************************)
(* Vocabulary of the properties of the application.                        *)
(***************************************************************************)
Results == session_state["analysis_results"]

\* the run of the script has gone through the analysis, which was started
Analysing == main.pc = "analysed" /\ main.message # "none"

\* the table the scorer of this run was handed by a collaborator operation
HandedOver(operation) ==
    IF operation \in GitFaults THEN git_metrics[operation] ELSE static_metrics[operation]

(***************************************************************************)
(* C21: authorship is a metric kind of the combiner.  After an analysis    *)
(* with a positive authorship weight and an authorship table with rows,    *)
(* the result has an authorship score column, and every risk_score is the  *)
(* weighted sum with the authorship term over the weights applied with the *)
(* authorship weight.  Stated as the claim states it; the scorer reads     *)
(* neither the authorship table nor the authorship weight.                 *)
(***************************************************************************)
AuthorshipWeighted ==
    /\ main.message = "success"
    /\ RLt(Zero, weights["authorship"])
    /\ ~IsEmpty(git_metrics["authorship_churn"])

C21_AuthorshipIsCombined ==
    AuthorshipWeighted =>
        /\ "authorship_score" \in result.df.cols
        /\ \A i \in 1..Len(Ranking) :
              RMul(Ranking[i]["risk_score"],
                   RAdd(TotalWeight(Len(Kinds), weights, PresentKinds(result.df)),
                        weights["authorship"]))
                = RAdd(WeightedSum(Len(Kinds), weights, Ranking[i],
                                   PresentKinds(result.df)),
                       RMul(weights["authorship"], Ranking[i]["authorship_score"]))

(***************************************************************************)
(* C22: a failure of a collaborator operation (get_file_last_modified,     *)
(* get_change_frequency, get_authorship_churn, analyze_complexity,         *)
(* analyze_maintainability, analyze_test_coverage) becomes an empty table  *)
(* for its metric and the scorer runs on the other metrics: the failure    *)
(* does not reach main as an exception.  Stated as the claim states it;    *)
(* the operations of GitActivityAnalyzer raise their exceptions again.     *)
(***************************************************************************)
Operations == GitFaults \cup {"complexity", "maintainability", "test_coverage"}

C22_FailureBecomesEmptyTable ==
    (Analysing /\ main.failed \in Operations) =>
        /\ main.error \notin {"GitActivityAnalyzer", "StaticCodeAnalyzer"}
        /\ main.failed \in DOMAIN git_metrics \cup DOMAIN static_metrics
        /\ IsEmpty(HandedOver(main.failed))

(***************************************************************************)
(* C28: after a click on Start Analysis analysis_results is the record of  *)
(* the risk scores, git metrics and static metrics of that run when every  *)
(* step succeeded, and None when a step raised, whatever an earlier run    *)
(* left there; and the dashboard is shown only when analysis_results is    *)
(* not None.                                                               *)
(***************************************************************************)
C28_ResultsAreOfTheLastClick ==
    /\ [][(main.pc = "ready" /\ main'.message # "none") =>
            IF main'.error = "none"
            THEN /\ result'.status = "returned"
                 /\ session_state'["analysis_results"] =
                       [risk_scores |-> result'.df, git_metrics |-> git_metrics',
                        static_metrics |-> static_metrics']
            ELSE session_state'["analysis_results"] = None]_vars
    /\ [](main.dashboard => Results # None)

\* an analysis that failed in the history miner, after an analysis whose
\* scorer returned: the results of the earlier one are gone
C28_Witness ==
    /\ Analysing
    /\ main.error = "GitActivityAnalyzer"
    /\ result.status = "returned"
    /\ ~IsEmpty(result.df)
    /\ Results = None

(***************************************************************************)
(* C29: every temporary directory a run of the script creates is removed   *)
(* before that run ends, whether the clone failed, no analysis was         *)
(* started, the analysis failed or it succeeded, and never before the      *)
(* analysis of the run has read it.  Stated as the claim states it; a run  *)
(* that ends without results leaves its directory on disk.                 *)
(***************************************************************************)
C29_TempDirRemovedByTheEnd ==
    /\ main.pc = "idle" => temp_dirs = {}
    /\ main.pc = "ready" => Readable

====
